---------------------------- MODULE Spec2Model ----------------------------
(***************************************************************************)
(* A model of src/task.rs: the Spawner capability handle, the spawn entry  *)
(* point and JoinHandle, together with the one-shot result channel the     *)
(* code builds on (futures::channel::oneshot, modelled at the granularity  *)
(* of its atomic operations) and the backend registry it submits to.       *)
(***************************************************************************)
EXTENDS Naturals, Sequences, FiniteSets, TLC

\* The two independently spawned tasks of the spec's scenario.
Tasks == {"A", "B"}

\* A caller that spawns one task only.
Solo == {"A"}

\* Values a task body may produce are 1..MaxValue.
MaxValue == 2
Values == 1..MaxValue

\* The Spawner handles a caller may hold, and the calls of spawn_obj it makes.
Spawners == {"s1", "s2"}
MaxSubmits == 2
Calls == 1..MaxSubmits

\* One result channel per call of spawn.
Chans == 1..Cardinality(Tasks)

\* Option<T> is a sequence of length at most one.
None == <<>>
Some(x) == <<x>>
Unwrap(o) == o[1]

VARIABLES
    runtime,     \* the backend registry: "none", "accepting" or "rejecting"
    nextChan,    \* the next fresh oneshot channel
    complete,    \* oneshot Inner.complete, per channel
    data,        \* oneshot Inner.data, per channel
    dataLock,    \* whether Inner.data's Lock is held
    rx_task,     \* oneshot Inner.rx_task: the waker a poll registered
    rxLock,      \* whether Inner.rx_task's Lock is held
    fut,         \* the task body handed to spawn, per task
    tx,          \* the Sender the wrapper future owns
    rx,          \* JoinHandle.rx
    spawned,     \* what the call of spawn gave its caller
    tpc,         \* where the wrapper future stands
    outcome,     \* how the wrapper future ended
    sent,        \* what tx.send returned
    flag,        \* the side effect the task body performs on completion
    hpc,         \* where the owner of the JoinHandle stands
    woken,       \* whether the awaiter's waker has been woken
    lastPoll,    \* what the last poll of the JoinHandle returned
    firstTerminal, \* the first result of a poll that was not Pending
    repolled,    \* whether a poll has returned after that first result
    spawner,     \* the Spawner handles that exist
    rawpc,       \* where each body submitted through a Spawner stands
    lastSubmit   \* the last call of spawn_obj: handle, engine resolved, result

chanVars == <<nextChan, complete, data, dataLock, rx_task, rxLock>>
taskVars == <<fut, tx, tpc, outcome, sent, flag>>
handleVars == <<spawned, rx, hpc, woken, lastPoll, firstTerminal, repolled>>
submitVars == <<spawner, rawpc, lastSubmit>>
vars == <<runtime, chanVars, taskVars, handleVars, submitVars>>

(***************************************************************************)
(* Poll results.                                                           *)
(***************************************************************************)
Pending == [kind |-> "Pending", val |-> None]
Ready(v) == [kind |-> "Ready", val |-> Some(v)]
Panic == [kind |-> "Panic", val |-> None]
\* Poll<Result<T, Canceled>> of the receiver
RxOk(v) == [kind |-> "Ok", val |-> Some(v)]
RxCanceled == [kind |-> "Canceled", val |-> None]

(***************************************************************************)
(* The backend registry (runtime_raw), resolved at call time.              *)
(***************************************************************************)
\* current_runtime(): with no engine installed the accessor fails, by an
\* abort or by handing out an engine that refuses, as the backend defines.
current_runtime == IF runtime = "none" THEN {"Abort", "Unavailable"} ELSE {runtime}

\* Runtime::spawn_boxed on the engine the accessor resolved.
spawn_boxed(engine) == IF engine = "accepting" THEN "Ok" ELSE "Err"

\* runtime_raw::current_runtime().spawn_boxed(fut.boxed())
submit(engine) == IF engine = "Abort" THEN "Panic" ELSE spawn_boxed(engine)

\* A spawn that ignores the result of the submission.
expect_ignored(r) == "Ok"

\* .expect("cannot spawn a future")
expect(r) == IF r = "Ok" THEN "Ok" ELSE "Panic"

\* The task bodies a caller may hand to spawn.
Bodies == {[kind |-> "returns", val |-> v] : v \in Values} \cup {[kind |-> "panics", val |-> 1]}

\* A wrapper that sends a default value instead of the body's.
t_stale(i) == 1

\* let t = fut.await
t(i) == Unwrap(fut[i]).val

\* A spawn that hands out the channel of the spawn before it again.
channel_reused == IF nextChan > 1 THEN nextChan - 1 ELSE nextChan

\* The channel (tx, rx) created by oneshot::channel() in spawn.
channel == nextChan

Init ==
    /\ runtime = "none"
    /\ nextChan = 1
    /\ complete = [c \in Chans |-> FALSE]
    /\ data = [c \in Chans |-> None]
    /\ dataLock = [c \in Chans |-> FALSE]
    /\ rx_task = [c \in Chans |-> None]
    /\ rxLock = [c \in Chans |-> FALSE]
    /\ fut = [i \in Tasks |-> None]
    /\ tx = [i \in Tasks |-> None]
    /\ rx = [i \in Tasks |-> None]
    /\ spawned = [i \in Tasks |-> "none"]
    /\ tpc = [i \in Tasks |-> "unspawned"]
    /\ outcome = [i \in Tasks |-> "none"]
    /\ sent = [i \in Tasks |-> "none"]
    /\ flag = [i \in Tasks |-> FALSE]
    /\ hpc = [i \in Tasks |-> "none"]
    /\ woken = [i \in Tasks |-> FALSE]
    /\ lastPoll = [i \in Tasks |-> None]
    /\ firstTerminal = [i \in Tasks |-> None]
    /\ repolled = [i \in Tasks |-> FALSE]
    /\ spawner = [s \in Spawners |-> None]
    /\ rawpc = [k \in Calls |-> "unsubmitted"]
    /\ lastSubmit = None

(***************************************************************************)
(* The environment: the harness installs the backend and shuts it down.    *)
(***************************************************************************)
InstallRuntime ==
    /\ runtime = "none"
    /\ runtime' = "accepting"
    /\ UNCHANGED <<chanVars, taskVars, handleVars, submitVars>>

ShutdownRuntime ==
    /\ runtime = "accepting"
    /\ runtime' = "rejecting"
    /\ UNCHANGED <<chanVars, taskVars, handleVars, submitVars>>

(***************************************************************************)
(* spawn(fut): creates the channel, wraps the body, submits the wrapper    *)
(* and returns JoinHandle { rx }, or panics when the submission fails.     *)
(***************************************************************************)
spawn(i, f) ==
    /\ tpc[i] = "unspawned"
    /\ \E engine \in current_runtime :
        /\ IF submit(engine) = "Ok"
           THEN /\ fut' = [fut EXCEPT ![i] = Some(f)]
                /\ tx' = [tx EXCEPT ![i] = Some(channel)]
                /\ tpc' = [tpc EXCEPT ![i] = "queued"]
           ELSE /\ tpc' = [tpc EXCEPT ![i] = "rejected"]
                /\ UNCHANGED <<fut, tx>>
        /\ IF expect(submit(engine)) = "Ok"
           THEN /\ spawned' = [spawned EXCEPT ![i] = "JoinHandle"]
                /\ rx' = [rx EXCEPT ![i] = Some(channel)]
                /\ hpc' = [hpc EXCEPT ![i] = "idle"]
                /\ nextChan' = nextChan + 1
                \* a wrapper the backend did not take is dropped, and tx with it
                /\ complete' = [complete EXCEPT ![channel] = submit(engine) # "Ok"]
           ELSE /\ spawned' = [spawned EXCEPT ![i] = "panic"]
                /\ UNCHANGED <<rx, hpc, nextChan, complete>>
    /\ UNCHANGED <<submitVars, runtime, data, dataLock, rx_task, rxLock>>
    /\ UNCHANGED <<outcome, sent, flag, woken, lastPoll, firstTerminal, repolled>>

(***************************************************************************)
(* The backend runs the wrapper future                                     *)
(*     async move { let t = fut.await; let _ = tx.send(t); }               *)
(* on some worker, or discards it.                                         *)
(***************************************************************************)
\* The backend polls the wrapper for the first time: the body starts.
BackendStart(i) ==
    /\ tpc[i] = "queued"
    /\ tpc' = [tpc EXCEPT ![i] = "running"]
    /\ UNCHANGED <<submitVars, runtime, chanVars, fut, tx, outcome, sent, flag, handleVars>>

\* The backend drops the wrapper before the body has completed: tx is dropped.
BackendDiscard(i) ==
    /\ tpc[i] \in {"queued", "running"}
    /\ outcome' = [outcome EXCEPT ![i] = "discarded"]
    /\ tpc' = [tpc EXCEPT ![i] = "drop_store"]
    /\ UNCHANGED <<submitVars, runtime, chanVars, fut, tx, sent, flag, handleVars>>

\* A wrapper that gives the body up once the receiver is gone.
BodyCompletes_cancellable(i) ==
    /\ tpc[i] = "running"
    /\ Unwrap(fut[i]).kind = "returns"
    /\ ~complete[Unwrap(tx[i])]
    /\ flag' = [flag EXCEPT ![i] = TRUE]
    /\ outcome' = [outcome EXCEPT ![i] = "returned"]
    /\ tpc' = [tpc EXCEPT ![i] = "send_check"]
    /\ UNCHANGED <<submitVars, runtime, chanVars, fut, tx, sent, handleVars>>

\* fut.await completes normally: t is the body's value, its side effect is done.
BodyCompletes(i) ==
    /\ tpc[i] = "running"
    /\ Unwrap(fut[i]).kind = "returns"
    /\ flag' = [flag EXCEPT ![i] = TRUE]
    /\ outcome' = [outcome EXCEPT ![i] = "returned"]
    /\ tpc' = [tpc EXCEPT ![i] = "send_check"]
    /\ UNCHANGED <<submitVars, runtime, chanVars, fut, tx, sent, handleVars>>

\* fut.await terminates abnormally: unwinding drops tx without a send.
BodyPanics(i) ==
    /\ tpc[i] = "running"
    /\ Unwrap(fut[i]).kind = "panics"
    /\ outcome' = [outcome EXCEPT ![i] = "panicked"]
    /\ tpc' = [tpc EXCEPT ![i] = "drop_store"]
    /\ UNCHANGED <<submitVars, runtime, chanVars, fut, tx, sent, flag, handleVars>>

(***************************************************************************)
(* tx.send(t): oneshot Inner::send, one action per atomic operation.       *)
(***************************************************************************)
\* A send that flags the channel complete before the value is stored.
SendCheck_flagFirst(i) ==
    /\ tpc[i] = "send_check"
    /\ complete' = [complete EXCEPT ![Unwrap(tx[i])] = TRUE]
    /\ tpc' = [tpc EXCEPT ![i] = "send_lock"]
    /\ UNCHANGED <<submitVars, runtime, nextChan, data, dataLock, rx_task, rxLock>>
    /\ UNCHANGED <<fut, tx, outcome, sent, flag, handleVars>>

\* A wrapper that unwraps the result of the send: tx.send(t).unwrap().
SendCheck_unwrap(i) ==
    /\ tpc[i] = "send_check"
    /\ IF complete[Unwrap(tx[i])]
       THEN /\ sent' = [sent EXCEPT ![i] = "Err"]
            /\ outcome' = [outcome EXCEPT ![i] = "panicked"]
            /\ tpc' = [tpc EXCEPT ![i] = "drop_store"]
       ELSE /\ tpc' = [tpc EXCEPT ![i] = "send_lock"]
            /\ UNCHANGED <<sent, outcome>>
    /\ UNCHANGED <<submitVars, runtime, chanVars, fut, tx, flag, handleVars>>

\* if self.complete.load(SeqCst) { return Err(t) }
SendCheck(i) ==
    /\ tpc[i] = "send_check"
    /\ IF complete[Unwrap(tx[i])]
       THEN /\ sent' = [sent EXCEPT ![i] = "Err"]
            /\ tpc' = [tpc EXCEPT ![i] = "drop_store"]
       ELSE /\ tpc' = [tpc EXCEPT ![i] = "send_lock"]
            /\ UNCHANGED sent
    /\ UNCHANGED <<submitVars, runtime, chanVars, fut, tx, outcome, flag, handleVars>>

\* if let Some(mut slot) = self.data.try_lock() { ... } else { Err(t) }
SendLock(i) ==
    /\ tpc[i] = "send_lock"
    /\ IF dataLock[Unwrap(tx[i])]
       THEN /\ sent' = [sent EXCEPT ![i] = "Err"]
            /\ tpc' = [tpc EXCEPT ![i] = "drop_store"]
            /\ UNCHANGED dataLock
       ELSE /\ dataLock' = [dataLock EXCEPT ![Unwrap(tx[i])] = TRUE]
            /\ tpc' = [tpc EXCEPT ![i] = "send_store"]
            /\ UNCHANGED sent
    /\ UNCHANGED <<submitVars, runtime, nextChan, complete, data, rx_task, rxLock>>
    /\ UNCHANGED <<fut, tx, outcome, flag, handleVars>>

\* A send that lets go of the value instead of storing it.
SendStore_dropsValue(i) ==
    /\ tpc[i] = "send_store"
    /\ dataLock' = [dataLock EXCEPT ![Unwrap(tx[i])] = FALSE]
    /\ tpc' = [tpc EXCEPT ![i] = "send_recheck"]
    /\ UNCHANGED <<submitVars, runtime, nextChan, complete, data, rx_task, rxLock>>
    /\ UNCHANGED <<fut, tx, outcome, sent, flag, handleVars>>

\* *slot = Some(t); drop(slot);
SendStore(i) ==
    /\ tpc[i] = "send_store"
    /\ data' = [data EXCEPT ![Unwrap(tx[i])] = Some(t(i))]
    /\ dataLock' = [dataLock EXCEPT ![Unwrap(tx[i])] = FALSE]
    /\ tpc' = [tpc EXCEPT ![i] = "send_recheck"]
    /\ UNCHANGED <<submitVars, runtime, nextChan, complete, rx_task, rxLock>>
    /\ UNCHANGED <<fut, tx, outcome, sent, flag, handleVars>>

\* A wrapper that keeps its sender and sends the value a second time.
SendRecheck_resend(i) ==
    /\ tpc[i] = "send_recheck"
    /\ IF complete[Unwrap(tx[i])]
       THEN /\ tpc' = [tpc EXCEPT ![i] = "send_takeback"]
            /\ UNCHANGED sent
       ELSE /\ sent' = [sent EXCEPT ![i] = "Ok"]
            /\ tpc' = [tpc EXCEPT ![i] =
                    IF sent[i] = "none" THEN "send_check" ELSE "drop_store"]
    /\ UNCHANGED <<submitVars, runtime, chanVars, fut, tx, outcome, flag, handleVars>>

\* if self.complete.load(SeqCst) { try to pull the value back } ... Ok(())
SendRecheck(i) ==
    /\ tpc[i] = "send_recheck"
    /\ IF complete[Unwrap(tx[i])]
       THEN /\ tpc' = [tpc EXCEPT ![i] = "send_takeback"]
            /\ UNCHANGED sent
       ELSE /\ sent' = [sent EXCEPT ![i] = "Ok"]
            /\ tpc' = [tpc EXCEPT ![i] = "drop_store"]
    /\ UNCHANGED <<submitVars, runtime, chanVars, fut, tx, outcome, flag, handleVars>>

\* if let Some(mut slot) = self.data.try_lock() {
\*     if let Some(t) = slot.take() { return Err(t) } }  Ok(())
SendTakeback(i) ==
    /\ tpc[i] = "send_takeback"
    /\ IF ~dataLock[Unwrap(tx[i])] /\ data[Unwrap(tx[i])] # None
       THEN /\ data' = [data EXCEPT ![Unwrap(tx[i])] = None]
            /\ sent' = [sent EXCEPT ![i] = "Err"]
       ELSE /\ sent' = [sent EXCEPT ![i] = "Ok"]
            /\ UNCHANGED data
    /\ tpc' = [tpc EXCEPT ![i] = "drop_store"]
    /\ UNCHANGED <<submitVars, runtime, nextChan, complete, dataLock, rx_task, rxLock>>
    /\ UNCHANGED <<fut, tx, outcome, flag, handleVars>>

(***************************************************************************)
(* Dropping the Sender: oneshot Inner::drop_tx.                            *)
(***************************************************************************)
\* self.complete.store(true, SeqCst)
DropTxStore(i) ==
    /\ tpc[i] = "drop_store"
    /\ complete' = [complete EXCEPT ![Unwrap(tx[i])] = TRUE]
    /\ tpc' = [tpc EXCEPT ![i] = "drop_lock"]
    /\ UNCHANGED <<submitVars, runtime, nextChan, data, dataLock, rx_task, rxLock>>
    /\ UNCHANGED <<fut, tx, outcome, sent, flag, handleVars>>

\* if let Some(mut slot) = self.rx_task.try_lock() { ... }
DropTxLock(i) ==
    /\ tpc[i] = "drop_lock"
    /\ IF rxLock[Unwrap(tx[i])]
       THEN /\ tpc' = [tpc EXCEPT ![i] = "done"]
            /\ tx' = [tx EXCEPT ![i] = None]
            /\ UNCHANGED rxLock
       ELSE /\ rxLock' = [rxLock EXCEPT ![Unwrap(tx[i])] = TRUE]
            /\ tpc' = [tpc EXCEPT ![i] = "drop_take"]
            /\ UNCHANGED tx
    /\ UNCHANGED <<submitVars, runtime, nextChan, complete, data, dataLock, rx_task>>
    /\ UNCHANGED <<fut, outcome, sent, flag, handleVars>>

\* if let Some(task) = slot.take() { drop(slot); task.wake(); }
DropTxTake(i) ==
    /\ tpc[i] = "drop_take"
    /\ rx_task' = [rx_task EXCEPT ![Unwrap(tx[i])] = None]
    /\ rxLock' = [rxLock EXCEPT ![Unwrap(tx[i])] = FALSE]
    /\ IF rx_task[Unwrap(tx[i])] # None
       THEN /\ woken' = [woken EXCEPT ![Unwrap(rx_task[Unwrap(tx[i])])] = TRUE]
       ELSE /\ UNCHANGED woken
    /\ tpc' = [tpc EXCEPT ![i] = "done"]
    /\ tx' = [tx EXCEPT ![i] = None]
    /\ UNCHANGED <<submitVars, runtime, nextChan, complete, data, dataLock>>
    /\ UNCHANGED <<fut, outcome, sent, flag, spawned, rx, hpc, lastPoll, firstTerminal, repolled>>

\* The steps of the wrapper future the backend takes when it runs it.
TaskStep(i) ==
    \/ BackendStart(i)
    \/ BodyCompletes(i)
    \/ BodyPanics(i)
    \/ SendCheck(i)
    \/ SendLock(i)
    \/ SendStore(i)
    \/ SendRecheck(i)
    \/ SendTakeback(i)
    \/ DropTxStore(i)
    \/ DropTxLock(i)
    \/ DropTxTake(i)

(***************************************************************************)
(* JoinHandle::poll: self.rx.poll_unpin(cx), which is oneshot Inner::recv, *)
(* one action per atomic operation, then the match on its result.          *)
(***************************************************************************)
\* A poll that answers a closed channel with Pending instead of panicking.
poll_pending_on_cancel(r) ==
    CASE r.kind = "Pending" -> [kind |-> "Pending", val |-> None]
      [] r.kind = "Ok" -> [kind |-> "Ready", val |-> r.val]
      [] r.kind = "Canceled" -> [kind |-> "Pending", val |-> None]

\* A poll that answers a closed channel with a default value.
poll_ready_default(r) ==
    CASE r.kind = "Pending" -> [kind |-> "Pending", val |-> None]
      [] r.kind = "Ok" -> [kind |-> "Ready", val |-> r.val]
      [] r.kind = "Canceled" -> [kind |-> "Ready", val |-> Some(1)]

\* A poll that answers a channel still open with a default value.
poll_ready_on_pending(r) ==
    CASE r.kind = "Pending" -> [kind |-> "Ready", val |-> Some(1)]
      [] r.kind = "Ok" -> [kind |-> "Ready", val |-> r.val]
      [] r.kind = "Canceled" -> [kind |-> "Panic", val |-> None]

\* match self.rx.poll_unpin(cx) { Pending => Pending, Ready(Ok(t)) => Ready(t),
\*                                Ready(Err(_)) => panic!() }
poll(r) ==
    CASE r.kind = "Pending" -> Pending
      [] r.kind = "Ok" -> Ready(Unwrap(r.val))
      [] r.kind = "Canceled" -> Panic

\* The poll of task i's JoinHandle returns: what the caller observes.
PollReturns(i, r) ==
    /\ lastPoll' = [lastPoll EXCEPT ![i] = Some(poll(r))]
    /\ firstTerminal' = [firstTerminal EXCEPT ![i] =
            IF firstTerminal[i] = None /\ poll(r).kind # "Pending"
            THEN Some(poll(r)) ELSE firstTerminal[i]]
    /\ repolled' = [repolled EXCEPT ![i] = firstTerminal[i] # None]
    /\ hpc' = [hpc EXCEPT ![i] = "idle"]

\* handle.await: the first poll, and each poll after the waker was woken.
Await(i) ==
    /\ hpc[i] = "idle"
    /\ \/ lastPoll[i] = None
       \/ lastPoll[i] = Some(Pending) /\ woken[i]
    /\ hpc' = [hpc EXCEPT ![i] = "recv_load"]
    /\ woken' = [woken EXCEPT ![i] = FALSE]
    /\ UNCHANGED <<submitVars, runtime, chanVars, taskVars, spawned, rx, lastPoll, firstTerminal, repolled>>

\* A poll nothing asked for: a spurious one, or one after the handle resolved.
PollAgain(i) ==
    /\ hpc[i] = "idle"
    /\ lastPoll[i] # None
    /\ ~(lastPoll[i] = Some(Pending) /\ woken[i])
    /\ hpc' = [hpc EXCEPT ![i] = "recv_load"]
    /\ woken' = [woken EXCEPT ![i] = FALSE]
    /\ UNCHANGED <<submitVars, runtime, chanVars, taskVars, spawned, rx, lastPoll, firstTerminal, repolled>>

\* let done = if self.complete.load(SeqCst) { true } else { ... }
RecvLoad(i) ==
    /\ hpc[i] = "recv_load"
    /\ hpc' = [hpc EXCEPT ![i] =
            IF complete[Unwrap(rx[i])] THEN "recv_data" ELSE "recv_lock"]
    /\ UNCHANGED <<submitVars, runtime, chanVars, taskVars, spawned, rx, woken, lastPoll, firstTerminal, repolled>>

\* let task = cx.waker().clone();
\* match self.rx_task.try_lock() { Some(slot) => ..., None => true }
RecvLock(i) ==
    /\ hpc[i] = "recv_lock"
    /\ IF rxLock[Unwrap(rx[i])]
       THEN /\ hpc' = [hpc EXCEPT ![i] = "recv_data"]
            /\ UNCHANGED rxLock
       ELSE /\ rxLock' = [rxLock EXCEPT ![Unwrap(rx[i])] = TRUE]
            /\ hpc' = [hpc EXCEPT ![i] = "recv_store"]
    /\ UNCHANGED <<submitVars, runtime, nextChan, complete, data, dataLock, rx_task>>
    /\ UNCHANGED <<taskVars, spawned, rx, woken, lastPoll, firstTerminal, repolled>>

\* A poll that hands the channel a context whose waker wakes nobody.
RecvStore_noopWaker(i) ==
    /\ hpc[i] = "recv_store"
    /\ rx_task' = [rx_task EXCEPT ![Unwrap(rx[i])] = None]
    /\ rxLock' = [rxLock EXCEPT ![Unwrap(rx[i])] = FALSE]
    /\ hpc' = [hpc EXCEPT ![i] = "recv_reload"]
    /\ UNCHANGED <<submitVars, runtime, nextChan, complete, data, dataLock>>
    /\ UNCHANGED <<taskVars, spawned, rx, woken, lastPoll, firstTerminal, repolled>>

\* *slot = Some(task); false
RecvStore(i) ==
    /\ hpc[i] = "recv_store"
    /\ rx_task' = [rx_task EXCEPT ![Unwrap(rx[i])] = Some(i)]
    /\ rxLock' = [rxLock EXCEPT ![Unwrap(rx[i])] = FALSE]
    /\ hpc' = [hpc EXCEPT ![i] = "recv_reload"]
    /\ UNCHANGED <<submitVars, runtime, nextChan, complete, data, dataLock>>
    /\ UNCHANGED <<taskVars, spawned, rx, woken, lastPoll, firstTerminal, repolled>>

\* A poll that closes the receiver when it has to return Pending.
RecvReload_closing(i) ==
    /\ hpc[i] = "recv_reload"
    /\ IF complete[Unwrap(rx[i])]
       THEN /\ hpc' = [hpc EXCEPT ![i] = "recv_data"]
            /\ UNCHANGED <<complete, lastPoll, firstTerminal, repolled>>
       ELSE /\ PollReturns(i, Pending)
            /\ complete' = [complete EXCEPT ![Unwrap(rx[i])] = TRUE]
    /\ UNCHANGED <<submitVars, runtime, nextChan, data, dataLock, rx_task, rxLock>>
    /\ UNCHANGED <<taskVars, spawned, rx, woken>>

\* if done || self.complete.load(SeqCst) { ... } else { Poll::Pending }
RecvReload(i) ==
    /\ hpc[i] = "recv_reload"
    /\ IF complete[Unwrap(rx[i])]
       THEN /\ hpc' = [hpc EXCEPT ![i] = "recv_data"]
            /\ UNCHANGED <<lastPoll, firstTerminal, repolled>>
       ELSE PollReturns(i, Pending)
    /\ UNCHANGED <<submitVars, runtime, chanVars, taskVars, spawned, rx, woken>>

\* if let Some(mut slot) = self.data.try_lock() {
\*     if let Some(data) = slot.take() { return Poll::Ready(Ok(data)) } }
\* Poll::Ready(Err(Canceled))
RecvData(i) ==
    /\ hpc[i] = "recv_data"
    /\ IF ~dataLock[Unwrap(rx[i])] /\ data[Unwrap(rx[i])] # None
       THEN /\ data' = [data EXCEPT ![Unwrap(rx[i])] = None]
            /\ PollReturns(i, RxOk(Unwrap(data[Unwrap(rx[i])])))
       ELSE /\ UNCHANGED data
            /\ PollReturns(i, RxCanceled)
    /\ UNCHANGED <<submitVars, runtime, nextChan, complete, dataLock, rx_task, rxLock>>
    /\ UNCHANGED <<taskVars, spawned, rx, woken>>

\* The steps of one poll of the JoinHandle, once it has begun.
PollStep(i) ==
    \/ RecvLoad(i)
    \/ RecvLock(i)
    \/ RecvStore(i)
    \/ RecvReload(i)
    \/ RecvData(i)

(***************************************************************************)
(* Dropping the JoinHandle drops the Receiver: oneshot Inner::drop_rx.     *)
(***************************************************************************)
\* self.complete.store(true, SeqCst)
DropHandle(i) ==
    /\ hpc[i] = "idle"
    /\ complete' = [complete EXCEPT ![Unwrap(rx[i])] = TRUE]
    /\ hpc' = [hpc EXCEPT ![i] = "drop_rx"]
    /\ UNCHANGED <<submitVars, runtime, nextChan, data, dataLock, rx_task, rxLock>>
    /\ UNCHANGED <<taskVars, spawned, rx, woken, lastPoll, firstTerminal, repolled>>

\* if let Some(mut slot) = self.rx_task.try_lock() { let task = slot.take(); ... }
DropRx(i) ==
    /\ hpc[i] = "drop_rx"
    /\ IF rxLock[Unwrap(rx[i])]
       THEN UNCHANGED rx_task
       ELSE rx_task' = [rx_task EXCEPT ![Unwrap(rx[i])] = None]
    /\ hpc' = [hpc EXCEPT ![i] = "dropped"]
    /\ rx' = [rx EXCEPT ![i] = None]
    /\ UNCHANGED <<submitVars, runtime, nextChan, complete, data, dataLock, rxLock>>
    /\ UNCHANGED <<taskVars, spawned, woken, lastPoll, firstTerminal, repolled>>

(***************************************************************************)
(* Spawner: a handle with no state of its own.                             *)
(***************************************************************************)
\* Spawner::new(): Self { _reserved: () }
Spawner_new == [reserved |-> "()"]

\* Default::default(): Self::new()
Spawner_default == Spawner_new

\* A clone that carries state of its own.
Spawner_clone_marked(self) == [reserved |-> "clone"]

\* Clone::clone(&self): Self::new()
Spawner_clone(self) == Spawner_new

\* <&Spawner as Spawn>::spawn_obj:
\*     runtime_raw::current_runtime().spawn_boxed(future.boxed())
spawn_obj_ref(self, engine) == submit(engine)

\* An owned spawn_obj that reports success without forwarding the body.
spawn_obj_unforwarded(self, engine) == "Ok"

\* <Spawner as Spawn>::spawn_obj: (&*self).spawn_obj(future)
spawn_obj(self, engine) == spawn_obj_ref(self, engine)

\* A handle the caller holds: the Spawner, and how and when it was obtained.
Held(h, how) == Some([handle |-> h, origin |-> how, born |-> runtime])

NewSpawner(s) ==
    /\ spawner[s] = None
    /\ spawner' = [spawner EXCEPT ![s] = Held(Spawner_new, "new")]
    /\ UNCHANGED <<runtime, chanVars, taskVars, handleVars, rawpc, lastSubmit>>

DefaultSpawner(s) ==
    /\ spawner[s] = None
    /\ spawner' = [spawner EXCEPT ![s] = Held(Spawner_default, "default")]
    /\ UNCHANGED <<runtime, chanVars, taskVars, handleVars, rawpc, lastSubmit>>

CloneSpawner(s, from) ==
    /\ spawner[s] = None
    /\ spawner[from] # None
    /\ spawner' = [spawner EXCEPT ![s] =
            Held(Spawner_clone(Unwrap(spawner[from]).handle), "clone")]
    /\ UNCHANGED <<runtime, chanVars, taskVars, handleVars, rawpc, lastSubmit>>

\* The next call of spawn_obj hands over body k.
NextCall(k) == rawpc[k] = "unsubmitted" /\ \A j \in Calls : j < k => rawpc[j] # "unsubmitted"

\* A Spawner that keeps the backend it found when it was constructed.
SpawnObj_bound(s, k, mode) ==
    /\ spawner[s] # None
    /\ NextCall(k)
    /\ \E engine \in (IF Unwrap(spawner[s]).born = "none" THEN {"Abort", "Unavailable"}
                       ELSE {Unwrap(spawner[s]).born}) :
        LET self == Unwrap(spawner[s]).handle
            r == IF mode = "owned" THEN spawn_obj(self, engine)
                 ELSE spawn_obj_ref(self, engine)
        IN  /\ rawpc' = [rawpc EXCEPT ![k] = IF r = "Ok" THEN "queued" ELSE "rejected"]
            /\ lastSubmit' = Some([via |-> s, call |-> k, mode |-> mode,
                                   engine |-> engine, result |-> r])
    /\ UNCHANGED <<runtime, chanVars, taskVars, handleVars, spawner>>

\* A spawn_obj that runs the body on the caller when the backend refuses it.
SpawnObj_fallback(s, k, mode) ==
    /\ spawner[s] # None
    /\ NextCall(k)
    /\ \E engine \in current_runtime :
        LET self == Unwrap(spawner[s]).handle
            r == IF mode = "owned" THEN spawn_obj(self, engine)
                 ELSE spawn_obj_ref(self, engine)
        IN  /\ rawpc' = [rawpc EXCEPT ![k] = IF r = "Ok" THEN "queued" ELSE "running"]
            /\ lastSubmit' = Some([via |-> s, call |-> k, mode |-> mode,
                                   engine |-> engine, result |-> r])
    /\ UNCHANGED <<runtime, chanVars, taskVars, handleVars, spawner>>

\* s.spawn_obj(body k), on the Spawner itself ("owned") or on a reference to it.
SpawnObj(s, k, mode) ==
    /\ spawner[s] # None
    /\ NextCall(k)
    /\ \E engine \in current_runtime :
        LET self == Unwrap(spawner[s]).handle
            r == IF mode = "owned" THEN spawn_obj(self, engine)
                 ELSE spawn_obj_ref(self, engine)
        IN  /\ rawpc' = [rawpc EXCEPT ![k] = IF r = "Ok" THEN "queued" ELSE "rejected"]
            /\ lastSubmit' = Some([via |-> s, call |-> k, mode |-> mode,
                                   engine |-> engine, result |-> r])
    /\ UNCHANGED <<runtime, chanVars, taskVars, handleVars, spawner>>

\* The backend runs a body it accepted from spawn_obj.
RawStart(k) ==
    /\ rawpc[k] = "queued"
    /\ rawpc' = [rawpc EXCEPT ![k] = "running"]
    /\ UNCHANGED <<runtime, chanVars, taskVars, handleVars, spawner, lastSubmit>>

RawFinish(k) ==
    /\ rawpc[k] = "running"
    /\ rawpc' = [rawpc EXCEPT ![k] = "done"]
    /\ UNCHANGED <<runtime, chanVars, taskVars, handleVars, spawner, lastSubmit>>

\* What a caller holding one JoinHandle, the backend and the harness can do.
Next ==
    \/ InstallRuntime
    \/ ShutdownRuntime
    \/ \E i \in Solo, f \in Bodies : spawn(i, f)
    \/ \E i \in Solo : TaskStep(i)
    \/ \E i \in Solo : BackendDiscard(i)
    \/ \E i \in Solo : Await(i)
    \/ \E i \in Solo : PollAgain(i)
    \/ \E i \in Solo : PollStep(i)
    \/ \E i \in Solo : DropHandle(i)
    \/ \E i \in Solo : DropRx(i)

Spec == Init /\ [][Next]_vars

\* The backend runs every task it holds, and an awaiter polls when it first
\* awaits and whenever its waker was woken; nothing else is promised.
Fairness ==
    \A i \in Solo :
        /\ WF_vars(TaskStep(i))
        /\ WF_vars(Await(i))
        /\ WF_vars(PollStep(i))

FairSpec == Spec /\ Fairness

\* The steps of a wrapper future whose JoinHandle is kept: the send never
\* finds the channel closed, so it never has to pull the value back.
KeptTaskStep(i) ==
    \/ BackendStart(i)
    \/ BodyCompletes(i)
    \/ BodyPanics(i)
    \/ SendCheck(i)
    \/ SendLock(i)
    \/ SendStore(i)
    \/ SendRecheck(i)
    \/ DropTxStore(i)
    \/ DropTxLock(i)
    \/ DropTxTake(i)

\* Two tasks spawned independently on an active backend that runs both, each
\* JoinHandle kept and awaited.
NextPair ==
    \/ InstallRuntime
    \/ \E i \in Tasks, f \in Bodies : spawn(i, f)
    \/ \E i \in Tasks : KeptTaskStep(i)
    \/ \E i \in Tasks : Await(i)
    \/ \E i \in Tasks : PollStep(i)

PairSpec == Init /\ [][NextPair]_vars

\* The fairness of the backend and of the awaiters, for both tasks.
PairFairness ==
    \A i \in Tasks :
        /\ WF_vars(KeptTaskStep(i))
        /\ WF_vars(Await(i))
        /\ WF_vars(PollStep(i))

FairPairSpec == PairSpec /\ PairFairness

\* The task whose JoinHandle the caller drops, and the one whose handle it keeps.
Detached == {"A"}
Kept == {"B"}

\* Two tasks on an active backend: the caller drops the JoinHandle of one
\* without ever polling it, and awaits the handle of the other, which may
\* also be polled when nothing asked for it.
NextDetach ==
    \/ InstallRuntime
    \/ \E i \in Tasks, f \in Bodies : spawn(i, f)
    \/ \E i \in Tasks : TaskStep(i)
    \/ \E i \in Detached : DropHandle(i)
    \/ \E i \in Detached : DropRx(i)
    \/ \E i \in Kept : Await(i)
    \/ \E i \in Kept : PollAgain(i)
    \/ \E i \in Kept : PollStep(i)

DetachSpec == Init /\ [][NextDetach]_vars

\* The backend runs both tasks; the kept handle is polled when awaited and woken.
DetachFairness ==
    /\ \A i \in Tasks : WF_vars(TaskStep(i))
    /\ \A i \in Kept : WF_vars(Await(i)) /\ WF_vars(PollStep(i))

FairDetachSpec == DetachSpec /\ DetachFairness

\* The submission layer: Spawner handles, spawn_obj and spawn against the backend.
NextSubmit ==
    \/ InstallRuntime
    \/ ShutdownRuntime
    \/ \E s \in Spawners : NewSpawner(s)
    \/ \E s \in Spawners : DefaultSpawner(s)
    \/ \E s, from \in Spawners : CloneSpawner(s, from)
    \/ \E s \in Spawners, k \in Calls, mode \in {"owned", "ref"} : SpawnObj(s, k, mode)
    \/ \E k \in Calls : RawStart(k)
    \/ \E k \in Calls : RawFinish(k)
    \/ \E i \in Solo, f \in Bodies : spawn(i, f)
    \/ \E i \in Solo : BackendStart(i)

SubmitSpec == Init /\ [][NextSubmit]_vars


(***************************************************************************)
(* Properties.                                                             *)
(***************************************************************************)
\* The body of task i completes normally.
Returns(i) == fut[i] # None /\ Unwrap(fut[i]).kind = "returns"

\* The poll result Ready(v) for the value v of task i's body.
ReadyOwn(i) == IF fut[i] = None THEN None ELSE Some(Ready(Unwrap(fut[i]).val))

\* The JoinHandle of task i is being dropped or is gone.
HandleGone(i) == hpc[i] \in {"drop_rx", "dropped"}

\* A poll of task i's JoinHandle is under way.
Polling(i) == hpc[i] \in {"recv_load", "recv_lock", "recv_store", "recv_reload", "recv_data"}

\* This step is the return of a poll of task i's JoinHandle.
PollReturn(i) == Polling(i) /\ hpc'[i] = "idle"

\* C1: a task whose body completes normally with v, spawned on an active
\* backend and not discarded by it, resolves the await of its kept JoinHandle:
\* the first result that is not Pending is Ready(v), never another value and
\* never the abort path, and under fair scheduling that result arrives.
C1_AwaitYieldsValue ==
    /\ [](\A i \in Solo :
            (Returns(i) /\ outcome[i] # "discarded" /\ firstTerminal[i] # None)
                => firstTerminal[i] = ReadyOwn(i))
    /\ \A i \in Solo :
            (tpc[i] = "queued" /\ Returns(i))
                ~> \/ firstTerminal[i] # None /\ firstTerminal[i] = ReadyOwn(i)
                   \/ outcome[i] = "discarded"
                   \/ HandleGone(i)

\* C1 witness: the await of a task that produced the largest value resolved to
\* it, after the sender was dropped.
C1_Witness ==
    /\ firstTerminal["A"] = Some(Ready(MaxValue))
    /\ fut["A"] = Some([kind |-> "returns", val |-> MaxValue])
    /\ woken["A"] = FALSE
    /\ tpc["A"] = "done"

\* C2: dropping the JoinHandle before the task completes leaves the task
\* alone: the drop changes nothing of the task, and under fair scheduling the
\* body still completes, sets its flag and the wrapper finishes normally,
\* unless the backend itself discards the task.
C2_DropDoesNotCancel ==
    /\ [][\A i \in Solo : (hpc'[i] # hpc[i] /\ HandleGone(i)')
            => UNCHANGED <<fut, tx, tpc, outcome, flag>>]_vars
    /\ \A i \in Solo :
            (HandleGone(i) /\ Returns(i) /\ tpc[i] \in {"queued", "running"})
                ~> \/ flag[i] /\ tpc[i] = "done" /\ outcome[i] = "returned"
                   \/ outcome[i] = "discarded"

\* C2 witness: the handle was dropped before the body started, and the flag is set.
C2_Witness ==
    /\ hpc["A"] = "dropped"
    /\ lastPoll["A"] = None
    /\ flag["A"]
    /\ tpc["A"] = "done"
    /\ sent["A"] = "Err"

C4_DisconnectedStays ==
    [][\A i \in Solo :
        (firstTerminal[i] = Some(Panic) /\ PollReturn(i))
            => lastPoll'[i] = Some(Panic)]_vars

\* C4 witness: a handle that observed the disconnection has been polled again.
C4_Witness ==
    /\ firstTerminal["A"] = Some(Panic)
    /\ repolled["A"]
    /\ hpc["A"] = "idle"
    /\ outcome["A"] \in {"panicked", "discarded"}

\* C5 as claimed: spawn_obj returns Ok(()) while an engine is active and
\* accepting, and otherwise returns an error value without aborting the caller.
C5_SubmitReturnsResult ==
    lastSubmit # None =>
        IF Unwrap(lastSubmit).engine = "accepting"
        THEN Unwrap(lastSubmit).result = "Ok"
        ELSE Unwrap(lastSubmit).result = "Err"

\* C6: when the submission fails, spawn panics: the caller gets neither a
\* JoinHandle nor an error value, and every JoinHandle handed out belongs to
\* a task the backend accepted.
C6_FailedSpawnAborts ==
    \A i \in Solo :
        /\ tpc[i] = "rejected" =>
                spawned[i] = "panic" /\ rx[i] = None /\ hpc[i] = "none"
        /\ spawned[i] = "JoinHandle" => tpc[i] # "rejected" /\ fut[i] # None

\* C6 witness: a spawn on a backend that is shutting down has panicked.
C6_Witness ==
    /\ tpc["A"] = "rejected"
    /\ spawned["A"] = "panic"
    /\ runtime = "rejecting"

\* The body of task i ended abnormally, or the backend discarded the task.
Abnormal(i) == outcome[i] \in {"panicked", "discarded"}

\* C7: a spawned task that terminates abnormally or is discarded sends
\* nothing; its JoinHandle never yields a value, and under fair scheduling an
\* awaited handle does not stay Pending: a poll observes the disconnection
\* and panics.
C7_AbnormalDisconnects ==
    /\ [](\A i \in Solo : Abnormal(i) =>
            /\ sent[i] = "none"
            /\ tx[i] # None => data[Unwrap(tx[i])] = None
            /\ rx[i] # None => data[Unwrap(rx[i])] = None
            /\ tpc[i] = "done" /\ rx[i] # None => complete[Unwrap(rx[i])]
            /\ firstTerminal[i] # None => firstTerminal[i] = Some(Panic))
    /\ \A i \in Solo :
            Abnormal(i) ~> (firstTerminal[i] = Some(Panic) \/ HandleGone(i))

\* C7 witness: the first poll after the body panicked has panicked.
C7_Witness ==
    /\ outcome["A"] = "panicked"
    /\ firstTerminal["A"] = Some(Panic)
    /\ ~repolled["A"]
    /\ hpc["A"] = "idle"

\* The channel task i's wrapper sends on, or its JoinHandle receives from.
ChanOf(i) == IF rx[i] # None THEN rx[i] ELSE tx[i]

\* C8: two tasks spawned independently get channels of their own; whatever
\* the interleaving of their execution and of the polls of their handles, a
\* value found in a task's channel or returned by its handle is the value of
\* its own body, and the first result of a handle whose task returned is
\* Ready with that value; under fair scheduling each awaited handle of a task
\* that returns resolves, whatever the other task and its handle do.
C8_TasksIndependent ==
    /\ [](\A i \in Tasks :
            /\ \A j \in Tasks \ {i} :
                    ChanOf(i) # None /\ ChanOf(j) # None => ChanOf(i) # ChanOf(j)
            /\ rx[i] # None /\ data[Unwrap(rx[i])] # None
                    => data[Unwrap(rx[i])] = Some(Unwrap(fut[i]).val)
            /\ (Returns(i) /\ firstTerminal[i] # None)
                    => firstTerminal[i] = ReadyOwn(i))
    /\ \A i \in Tasks :
            (tpc[i] = "queued" /\ Returns(i))
                ~> (firstTerminal[i] # None /\ firstTerminal[i] = ReadyOwn(i))

\* C8 witness: B was spawned first and A after it, and both handles have
\* resolved, each to the value of its own task.
C8_Witness ==
    /\ firstTerminal["A"] = Some(Ready(1))
    /\ firstTerminal["B"] = Some(Ready(MaxValue))
    /\ rx["A"] = Some(2)
    /\ rx["B"] = Some(1)

\* The Spawner handles the caller holds.
HeldSpawners == {s \in Spawners : spawner[s] # None}

\* C9: handles obtained by new(), default() and clone() are equal values,
\* submitting through any of them, owned or by reference, gives the result a
\* freshly constructed handle gives for the engine resolved, the body is
\* handed to the backend exactly when that result is Ok, and a submission
\* leaves every handle as it was.
C9_SpawnersInterchangeable ==
    /\ [](\A s1, s2 \in HeldSpawners :
            /\ Unwrap(spawner[s1]).handle = Unwrap(spawner[s2]).handle
            /\ \A e \in current_runtime :
                    /\ spawn_obj(Unwrap(spawner[s1]).handle, e)
                            = spawn_obj(Unwrap(spawner[s2]).handle, e)
                    /\ spawn_obj(Unwrap(spawner[s1]).handle, e)
                            = spawn_obj_ref(Unwrap(spawner[s2]).handle, e))
    /\ [](lastSubmit # None =>
            /\ Unwrap(lastSubmit).result
                    = spawn_obj_ref(Spawner_new, Unwrap(lastSubmit).engine)
            /\ (Unwrap(lastSubmit).result = "Ok")
                    <=> (rawpc[Unwrap(lastSubmit).call] # "rejected"))
    /\ [][lastSubmit' # lastSubmit => spawner' = spawner]_vars

\* C9 witness: a clone made before the backend was installed has submitted a
\* body, successfully, beside a handle made by new().
C9_Witness ==
    /\ spawner["s1"] # None /\ Unwrap(spawner["s1"]).origin = "new"
    /\ spawner["s2"] # None /\ Unwrap(spawner["s2"]).origin = "clone"
    /\ lastSubmit # None
    /\ Unwrap(spawner["s2"]).born = "none"
    /\ Unwrap(lastSubmit).via = "s2"
    /\ Unwrap(lastSubmit).result = "Ok"
    /\ rawpc[MaxSubmits] = "done"

\* C10: no wakeup is lost: once the sender is gone, an awaiter suspended on
\* a poll that returned Pending has been woken, in every interleaving of the
\* poll with the send and the drop of the sender; under fair scheduling, with
\* the awaiter polling again only when woken, a handle that returned Pending
\* resolves.
C10_NoLostWakeup ==
    /\ [](\A i \in Solo :
            (hpc[i] = "idle" /\ lastPoll[i] = Some(Pending) /\ tpc[i] = "done")
                => woken[i])
    /\ \A i \in Solo :
            (hpc[i] = "idle" /\ lastPoll[i] = Some(Pending))
                ~> (firstTerminal[i] # None \/ HandleGone(i))

\* C10 witness: the sender was dropped while the awaiter was suspended after a
\* Pending poll, and the awaiter's waker has been woken.
C10_Witness ==
    /\ hpc["A"] = "idle"
    /\ lastPoll["A"] = Some(Pending)
    /\ tpc["A"] = "done"
    /\ outcome["A"] = "returned"
    /\ woken["A"]

\* What belongs to task j: its wrapper, its JoinHandle and its channel.
OwnState(j) ==
    <<fut[j], tx[j], tpc[j], outcome[j], sent[j], flag[j],
      spawned[j], rx[j], hpc[j], woken[j], lastPoll[j], firstTerminal[j], repolled[j],
      IF ChanOf(j) = None THEN None
      ELSE Some(<<complete[Unwrap(ChanOf(j))], data[Unwrap(ChanOf(j))],
                  dataLock[Unwrap(ChanOf(j))], rx_task[Unwrap(ChanOf(j))],
                  rxLock[Unwrap(ChanOf(j))]>>)>>

\* The wrapper of task i takes a step of its send or of the drop of its sender.
SendSteps(i) ==
    /\ tpc[i] \in {"send_check", "send_lock", "send_store", "send_recheck",
                    "send_takeback", "drop_store", "drop_lock", "drop_take"}
    /\ tpc'[i] # tpc[i]

\* C11: when the body completes after the JoinHandle was dropped, the send is
\* a silent no-op: it returns Err, the result is ignored and the wrapper
\* finishes normally (no panic on the worker), the value is left in no
\* channel, and the steps of that send change nothing of the other task, its
\* handle or its channel, whose handle still resolves to its own value.
C11_SendAfterDropIsSilent ==
    /\ [](\A i \in Detached :
            /\ sent[i] = "Err" => outcome[i] = "returned" /\ flag[i]
            /\ (HandleGone(i) /\ sent[i] = "Err") =>
                    \A c \in Chans : data[c] # None =>
                        \E j \in Kept : ChanOf(j) = Some(c)
            /\ (HandleGone(i) /\ tpc[i] \in {"queued", "running"}) =>
                    complete[Unwrap(tx[i])] /\ data[Unwrap(tx[i])] = None)
    /\ [][\A i \in Detached : (HandleGone(i) /\ SendSteps(i)) =>
            \A j \in Kept : OwnState(j)' = OwnState(j)]_vars
    /\ [](\A j \in Kept : (Returns(j) /\ firstTerminal[j] # None)
            => firstTerminal[j] = ReadyOwn(j))
    /\ \A i \in Detached :
            (HandleGone(i) /\ Returns(i) /\ tpc[i] = "running")
                ~> (tpc[i] = "done" /\ outcome[i] = "returned" /\ sent[i] = "Err")

\* C11 witness: the handle was dropped, the send of the completed body
\* failed and the wrapper finished, while the other handle resolved.
C11_Witness ==
    /\ hpc["A"] = "dropped"
    /\ tpc["A"] = "done"
    /\ sent["A"] = "Err"
    /\ outcome["A"] = "returned"
    /\ \A c \in Chans : data[c] = None
    /\ firstTerminal["B"] = Some(Ready(MaxValue))

\* C12: Ready and Disconnected are told apart by whether a value was sent: a
\* handle whose task sent its value while the handle was alive resolves first
\* to Ready of that value and never to the disconnected path, however the poll
\* interleaves with the send and the drop of the sender that follows it; a
\* first result Ready means the value was sent, and a first result on the
\* disconnected path means none was.
C12_ReadyDistinctFromDisconnected ==
    \A i \in Solo :
        /\ (sent[i] = "Ok" /\ firstTerminal[i] # None)
                => firstTerminal[i] = ReadyOwn(i)
        /\ (firstTerminal[i] # None /\ Unwrap(firstTerminal[i]).kind = "Ready")
                => sent[i] = "Ok" /\ outcome[i] = "returned"
        /\ firstTerminal[i] = Some(Panic) => sent[i] = "none" /\ Abnormal(i)
        /\ (sent[i] = "Ok" /\ Polling(i) /\ firstTerminal[i] = None)
                => data[Unwrap(rx[i])] = Some(t(i))

\* C12 witness: a poll that ran while the sender was being dropped, after the
\* send and before the drop had finished, returned Ready.
C12_Witness ==
    /\ sent["A"] = "Ok"
    /\ tpc["A"] = "drop_lock"
    /\ lastPoll["A"] = Some(Ready(MaxValue))
    /\ firstTerminal["A"] = Some(Ready(MaxValue))
    /\ ~repolled["A"]

\* C13: a body runs no step before the backend has accepted its submission,
\* and a failed submission is final: a body handed to spawn_obj starts only
\* from the backend's queue, which it enters only by a call that returned Ok
\* on an accepting engine; a rejected body never leaves that state; the same
\* holds for the wrapper handed over by spawn, whose body is dropped with the
\* failed call.
C13_NoStartBeforeAcceptNoRetry ==
    /\ [][\A k \in Calls : rawpc'[k] # rawpc[k] =>
            CASE rawpc[k] = "unsubmitted" ->
                    /\ lastSubmit' # None
                    /\ Unwrap(lastSubmit').call = k
                    /\ rawpc'[k] = IF Unwrap(lastSubmit').result = "Ok" THEN "queued"
                                   ELSE "rejected"
                    /\ Unwrap(lastSubmit').result = "Ok" <=> runtime = "accepting"
              [] rawpc[k] = "queued" -> rawpc'[k] = "running"
              [] rawpc[k] = "running" -> rawpc'[k] = "done"
              [] OTHER -> FALSE]_vars
    /\ [][\A i \in Solo : tpc'[i] # tpc[i] =>
            CASE tpc[i] = "unspawned" ->
                    IF runtime = "accepting"
                    THEN tpc'[i] = "queued" /\ spawned'[i] = "JoinHandle"
                    ELSE tpc'[i] = "rejected" /\ spawned'[i] = "panic"
              [] tpc[i] = "queued" -> tpc'[i] = "running"
              [] OTHER -> FALSE]_vars
    /\ [](\A i \in Solo : tpc[i] = "rejected" =>
            fut[i] = None /\ tx[i] = None /\ ~flag[i])
    /\ [](\A k \in Calls : rawpc[k] \in {"queued", "running", "done"} => runtime # "none")

\* C13 witness: the first body was refused by a backend not yet installed and
\* has not run; the caller's next call, on the installed backend, was accepted
\* and that body ran.
C13_Witness ==
    /\ rawpc[1] = "rejected"
    /\ rawpc[MaxSubmits] = "done"
    /\ tpc["A"] = "rejected"
    /\ lastSubmit # None
    /\ Unwrap(lastSubmit).call = MaxSubmits
    /\ Unwrap(lastSubmit).result = "Ok"

\* How far the wrapper future of a task has come: each of its steps is taken
\* at most once, in this order.
TaskRank(pc) ==
    CASE pc = "unspawned" -> 0
      [] pc \in {"queued", "rejected"} -> 1
      [] pc = "running" -> 2
      [] pc = "send_check" -> 3
      [] pc = "send_lock" -> 4
      [] pc = "send_store" -> 5
      [] pc = "send_recheck" -> 6
      [] pc = "send_takeback" -> 7
      [] pc = "drop_store" -> 8
      [] pc = "drop_lock" -> 9
      [] pc = "drop_take" -> 10
      [] pc = "done" -> 11

\* This step is a call of spawn for task i that the backend accepted.
Spawned(i) == tpc[i] = "unspawned" /\ tpc'[i] = "queued"

\* C14: each call of spawn creates one channel, fresh and its own, and hands
\* one wrapper to the backend; the wrapper is consumed once, each of its steps
\* taken at most once, so a value enters a channel only by the one send of
\* its task, at most once; and over any sequence of polls a JoinHandle
\* returns a value at most once, the value of its task.
C14_OneChannelOneValue ==
    /\ [][\A i \in Tasks : Spawned(i) =>
            /\ rx'[i] = Some(nextChan) /\ tx'[i] = Some(nextChan)
            /\ nextChan' = nextChan + 1
            /\ \A j \in Tasks : rx[j] # Some(nextChan) /\ tx[j] # Some(nextChan)
            /\ ~complete'[nextChan] /\ data'[nextChan] = None
            /\ rx_task'[nextChan] = None
            /\ ~dataLock'[nextChan] /\ ~rxLock'[nextChan]
            /\ \A j \in Tasks \ {i} : tpc'[j] = tpc[j] /\ fut'[j] = fut[j]]_vars
    /\ [][nextChan' # nextChan => \E i \in Tasks : Spawned(i)]_vars
    /\ [][\A i \in Tasks : tpc'[i] # tpc[i] => TaskRank(tpc'[i]) > TaskRank(tpc[i])]_vars
    /\ [][\A c \in Chans : (data'[c] # data[c] /\ data'[c] # None) =>
            /\ data[c] = None
            /\ \E i \in Tasks :
                    /\ tx[i] = Some(c)
                    /\ tpc[i] = "send_store" /\ tpc'[i] = "send_recheck"
                    /\ data'[c] = Some(Unwrap(fut[i]).val)]_vars
    /\ [][\A i \in Kept : (PollReturn(i) /\ Unwrap(lastPoll'[i]).kind = "Ready") =>
            firstTerminal[i] = None /\ lastPoll'[i] = ReadyOwn(i)]_vars

\* C14 witness: both calls of spawn got a channel, the kept handle received
\* its value and was polled again after that, and both wrappers are finished.
C14_Witness ==
    /\ nextChan = Cardinality(Tasks) + 1
    /\ firstTerminal["B"] = Some(Ready(MaxValue))
    /\ repolled["B"]
    /\ lastPoll["B"] = Some(Panic)
    /\ tpc["A"] = "done" /\ tpc["B"] = "done"
    /\ sent["A"] = "Ok"

\* C15: the backend is resolved when a body is submitted, not when the
\* Spawner was made: whatever the registry held when the handle was created
\* or cloned, a call of spawn_obj sees the registry as it is at the call; it
\* returns Ok when a backend is installed and accepting, an error when the
\* backend no longer accepts work, and never Ok when there is none.
C15_BackendResolvedAtSubmission ==
    [][lastSubmit' # lastSubmit =>
        /\ Unwrap(lastSubmit').engine \in current_runtime
        /\ spawner[Unwrap(lastSubmit').via] # None
        /\ runtime = "accepting" =>
                Unwrap(lastSubmit').result = "Ok" /\ rawpc'[Unwrap(lastSubmit').call] = "queued"
        /\ runtime = "rejecting" =>
                Unwrap(lastSubmit').result = "Err" /\ rawpc'[Unwrap(lastSubmit').call] = "rejected"
        /\ runtime = "none" =>
                Unwrap(lastSubmit').result # "Ok" /\ rawpc'[Unwrap(lastSubmit').call] = "rejected"]_vars

\* C15 witness: a first call was accepted; then a Spawner made while the
\* backend was accepting got an error from the backend once it had shut down,
\* beside a Spawner made before any backend was installed.
C15_Witness ==
    /\ spawner["s1"] # None /\ Unwrap(spawner["s1"]).born = "none"
    /\ spawner["s2"] # None /\ Unwrap(spawner["s2"]).born = "accepting"
    /\ rawpc[1] = "done"
    /\ lastSubmit # None
    /\ Unwrap(lastSubmit).via = "s2"
    /\ Unwrap(lastSubmit).call = MaxSubmits
    /\ Unwrap(lastSubmit).engine = "rejecting"
    /\ Unwrap(lastSubmit).result = "Err"

\* The backend, as the registry holds it now, takes a body submitted to it.
Accepts == \E e \in current_runtime : spawn_boxed(e) = "Ok"

\* C16: the three submission paths reach the backend the same way: for every
\* engine the registry may resolve, spawn_obj on a Spawner, spawn_obj on a
\* reference to it and the submission inside spawn give the same result, so
\* each call queues its one body exactly when the backend as it is at the
\* call accepts it, and changes the standing of no other body; where
\* spawn_obj reports the failure, spawn panics.
C16_SubmissionPathsAgree ==
    /\ [](\A e \in current_runtime :
            /\ spawn_obj(Spawner_new, e) = spawn_obj_ref(Spawner_new, e)
            /\ spawn_obj_ref(Spawner_new, e) = submit(e)
            /\ (submit(e) = "Ok") <=> (spawn_boxed(e) = "Ok" /\ e # "Abort")
            /\ expect(submit(e)) = IF spawn_obj(Spawner_new, e) = "Ok" THEN "Ok" ELSE "Panic")
    /\ [][lastSubmit' # lastSubmit =>
            /\ (rawpc'[Unwrap(lastSubmit').call] = "queued") <=> Accepts
            /\ (rawpc'[Unwrap(lastSubmit').call] = "rejected") <=> ~Accepts
            /\ (Unwrap(lastSubmit').result = "Ok") <=> Accepts
            /\ \A k \in Calls \ {Unwrap(lastSubmit').call} : rawpc'[k] = rawpc[k]
            /\ tpc' = tpc]_vars
    /\ [][\A i \in Solo : (tpc[i] = "unspawned" /\ tpc'[i] # "unspawned") =>
            /\ (tpc'[i] = "queued") <=> Accepts
            /\ (tpc'[i] = "rejected") <=> ~Accepts
            /\ spawned'[i] = IF Accepts THEN "JoinHandle" ELSE "panic"
            /\ rawpc' = rawpc /\ lastSubmit' = lastSubmit]_vars

\* C16 witness: on a backend that had shut down, spawn_obj on an owned
\* Spawner returned an error and spawn panicked, after an earlier body had
\* been accepted and run.
C16_Witness ==
    /\ runtime = "rejecting"
    /\ rawpc[1] = "done"
    /\ lastSubmit # None
    /\ Unwrap(lastSubmit).mode = "owned"
    /\ Unwrap(lastSubmit).engine = "rejecting"
    /\ Unwrap(lastSubmit).result = "Err"
    /\ tpc["A"] = "rejected"
    /\ spawned["A"] = "panic"

\* The sender of task i is alive and its send has not stored the value yet.
NotYetSent(i) == tpc[i] \in {"queued", "running", "send_check", "send_lock", "send_store"}

\* C17: a JoinHandle never resolves spuriously: a poll that returns while the
\* task has not yet sent its value and its sender is alive returns Pending; a
\* poll returns Ready(v) only after the body completed and its send of
\* exactly v succeeded; and a poll takes the disconnected path only once the
\* drop of the sender has closed the channel.
C17_NoSpuriousResolve ==
    [][\A i \in Solo : PollReturn(i) =>
        /\ NotYetSent(i) => lastPoll'[i] = Some(Pending)
        /\ Unwrap(lastPoll'[i]).kind = "Ready" =>
                /\ outcome[i] = "returned" /\ flag[i]
                /\ sent[i] = "Ok"
                /\ lastPoll'[i] = ReadyOwn(i)
                /\ data[Unwrap(rx[i])] = Some(t(i)) /\ data'[Unwrap(rx[i])] = None
        /\ lastPoll'[i] = Some(Panic) =>
                tpc[i] \in {"drop_lock", "drop_take", "done"} /\ complete[Unwrap(rx[i])]]_vars

\* C17 witness: a poll has returned Pending and registered its waker while
\* the body had completed but its value was not yet stored in the channel.
C17_Witness ==
    /\ hpc["A"] = "idle"
    /\ lastPoll["A"] = Some(Pending)
    /\ tpc["A"] = "send_store"
    /\ rx_task[1] = Some("A")
    /\ repolled["A"] = FALSE
    /\ data[1] = None

\* This step belongs to a poll of task i's JoinHandle: its start or one of its steps.
PollSteps(i) ==
    /\ hpc'[i] # hpc[i]
    /\ hpc[i] \in {"idle", "recv_load", "recv_lock", "recv_store", "recv_reload", "recv_data"}
    /\ hpc'[i] \in {"idle", "recv_load", "recv_lock", "recv_store", "recv_reload", "recv_data"}

\* C18: a poll that returns Pending leaves the task and its outcome as they
\* were: no step of a poll changes the wrapper, its body or the channel's
\* complete flag, a step of a poll that does not return Ready leaves the
\* value where it is and at most registers the poller's waker; whatever
\* number of polls returned Pending before, a poll that returns after the
\* send has finished yields Ready(v), and under fair scheduling a handle
\* that returned Pending still resolves to Ready(v).
C18_PendingPollsChangeNothing ==
    /\ [][\A i \in Solo : PollSteps(i) =>
            /\ UNCHANGED <<fut, tx, tpc, outcome, sent, flag, complete, dataLock, nextChan>>
            /\ rx_task'[Unwrap(rx[i])] \in {rx_task[Unwrap(rx[i])], Some(i)}
            /\ ~(hpc'[i] = "idle" /\ Unwrap(lastPoll'[i]).kind = "Ready") => data' = data
            /\ (hpc'[i] = "idle" /\ lastPoll'[i] = Some(Pending)) =>
                    firstTerminal' = firstTerminal]_vars
    /\ [][\A i \in Solo :
            (PollReturn(i) /\ tpc[i] = "done" /\ sent[i] = "Ok" /\ firstTerminal[i] = None)
                => lastPoll'[i] = ReadyOwn(i)]_vars
    /\ \A i \in Solo :
            (lastPoll[i] = Some(Pending) /\ Returns(i))
                ~> \/ firstTerminal[i] # None /\ firstTerminal[i] = ReadyOwn(i)
                   \/ outcome[i] = "discarded"
                   \/ HandleGone(i)

\* C18 witness: after a poll that returned Pending, a later poll, under way
\* now that the send has finished, is about to take the value, which is intact.
C18_Witness ==
    /\ lastPoll["A"] = Some(Pending)
    /\ hpc["A"] = "recv_data"
    /\ tpc["A"] = "done"
    /\ sent["A"] = "Ok"
    /\ data[1] = Some(MaxValue)
    /\ fut["A"] = Some([kind |-> "returns", val |-> MaxValue])

=============================================================================
